---- MODULE Spec2Model ----
(***************************************************************************)
(* A model of the service layer of movie-pass-api: the user service        *)
(* (sign-up, sign-in) and the movie service with its asynchronous image    *)
(* upload / delete pipeline (task queues, remote object store, database).  *)
(*                                                                         *)
(* Every service method is one action.  The collaborators it calls         *)
(* (repositories, remote store, session service) may fail: each call's     *)
(* failure is an input of the action, drawn with \E.  The variable `ulast` *)
(* (user service) and `last` (movie service) hold the most recent call:    *)
(* its arguments, the collaborator calls it made with their outcomes, and  *)
(* what it returned.  The user handler in front of the user service is     *)
(* modelled with its last two exchanges (`hlast`, `hprev`), and sign-up    *)
(* requests served concurrently run the service one repository call at a   *)
(* time (`reqs`).                                                          *)
(***************************************************************************)
EXTENDS Integers, Sequences, FiniteSets, TLC

\* ------------------------------------------------------------------ bounds

Emails == {"a@x", "b@x"}
Passwords == {"pw1", "pw2"}
MaxSessions == 2

\* ------------------------------------------------------------ domain errors

NoErr == "nil"
ErrGetUserByEmail == "ErrGetUserByEmail"
ErrEmailAlreadyRegister == "ErrEmailAlreadyRegister"
ErrHashingPassword == "ErrHashingPassword"
ErrCreateUser == "ErrCreateUser"
ErrUserNotFound == "ErrUserNotFound"
ErrInvalidPassword == "ErrInvalidPassword"
ErrCreateSession == "ErrCreateSession"

VARIABLES
    users,        \* table User: a set of rows [ID, Email, PasswordHash]
    sessions,     \* session store: sessions[t] is the user id token t was issued for
    ulast,        \* the most recent user-service call and its result
    hlast,        \* the most recent exchange of the user handler
    hprev,        \* the exchange of the user handler before that one
    reqs,         \* reqs[p]: the concurrent sign-up request p and where it stands
    movies,       \* table Movie: movies[id] is the row with that id
    movieImages,  \* table MovieImage: rows [ID, MovieID, ImageURL, CloudFlareID]
    remote,       \* the remote object store: the identifiers it holds
    nextCf,       \* the identifier the remote store gives to its next upload
    uploadQ,      \* queue of MovieImageUploadTask
    deleteQ,      \* queue of MovieImageDeleteTask
    last,         \* the most recent movie-service call and its result
    uploads,      \* history: uploads[c] is the upload that got remote id c
    requested,    \* history: requested[id] is the number of images of the payload
    faulted,      \* history: some collaborator call has failed
    deleted       \* history: the movies a Delete has returned nil for

uvars == <<users, sessions, ulast, hlast, hprev, reqs>>

mvars == <<movies, movieImages, remote, nextCf, uploadQ, deleteQ, last,
           uploads, requested, faulted, deleted>>

vars == <<users, sessions, ulast, hlast, hprev, reqs, movies, movieImages, remote,
          nextCf, uploadQ, deleteQ, last, uploads, requested, faulted, deleted>>

\* A collaborator call and whether it returned without error.
Call(fn, ok) == [fn |-> fn, ok |-> ok]

Called(calls, fn) == \E i \in 1..Len(calls) : calls[i].fn = fn

\* A failure is drawn only for a call that is made: fails is the failure
\* drawn for collaborator fn, calls the calls the method made.
Drawn(fails, fn, calls) ==
    fails => \E i \in 1..Len(calls) : calls[i].fn = fn /\ ~calls[i].ok

\* ------------------------------------------------------------- user service

\* secure.HashPassword / secure.CheckPassword: a one-way hash and its check.
HashPassword(password) == <<"hash", password>>

CheckPassword(hash, password) == hash = HashPassword(password)

\* userRepository.GetByEmail: WHERE email = ? ... First: the row with the
\* lowest primary key, or nil (the empty set) on ErrRecordNotFound.
GetByEmail(email) ==
    LET found == {u \in users : u.Email = email}
    IN  IF found = {} THEN {}
        ELSE {CHOOSE u \in found : \A v \in found : u.ID <= v.ID}

\* UserPayload.ToUser: the row built from the payload and the password hash.
ToUser(email, passwordHash) ==
    [ID |-> Cardinality(users) + 1, Email |-> email, PasswordHash |-> passwordHash]

\* userRepository.Create: INSERT of the row.
RepoCreateUser(user) == users \cup {user}

\* userService.Create, line 50: `if user != nil`, with the test dropped.
AlreadyRegistered_Never(user) == FALSE

\* userService.Create, line 50: `if user != nil`.
AlreadyRegistered(user) == user # {}

\* userService.Create: what it returns, the repository calls it makes and
\* the User table it leaves.
UserCreateResult(email, password, getFails, hashFails, createFails) ==
    LET user == GetByEmail(email)
    IN  IF getFails
        THEN [err |-> ErrGetUserByEmail, calls |-> <<Call("GetByEmail", FALSE)>>,
              users |-> users]
        ELSE IF AlreadyRegistered(user)
        THEN [err |-> ErrEmailAlreadyRegister,
              calls |-> <<Call("GetByEmail", TRUE)>>, users |-> users]
        ELSE IF hashFails
        THEN [err |-> ErrHashingPassword, calls |-> <<Call("GetByEmail", TRUE)>>,
              users |-> users]
        ELSE IF createFails
        THEN [err |-> ErrCreateUser,
              calls |-> <<Call("GetByEmail", TRUE), Call("Create", FALSE)>>,
              users |-> users]
        ELSE [err |-> NoErr,
              calls |-> <<Call("GetByEmail", TRUE), Call("Create", TRUE)>>,
              users |-> RepoCreateUser(ToUser(email, HashPassword(password)))]

UserCreate ==
    \E email \in Emails, password \in Passwords,
       getFails \in BOOLEAN, hashFails \in BOOLEAN, createFails \in BOOLEAN :
        LET r == UserCreateResult(email, password, getFails, hashFails, createFails)
        IN  /\ users' = r.users
            /\ ulast' = [op |-> "Create", email |-> email, password |-> password,
                         err |-> r.err, calls |-> r.calls, token |-> 0]
            /\ UNCHANGED <<sessions, hlast, hprev, reqs, mvars>>

\* sessionService.Create: a fresh opaque token, stored with the user it is for.
SessionCreate(user) == Append(sessions, user.ID)

\* sessionService.Create: the token it returns, the key of the new session.
SessionToken == Len(sessions) + 1

\* userService.SignIn, lines 103-105, answering with an empty token.
SignInResponse_Empty(token) == [Token |-> 0]

\* userService.SignIn, lines 103-105: the response built from the token
\* sessionService.Create returned.
SignInResponse(token) == [Token |-> token]

\* userService.SignIn, line 91, with the password check always passing.
PasswordRejected_Never(user, password) == FALSE

\* userService.SignIn, line 91: `if err := secure.CheckPassword(...); err != nil`.
PasswordRejected(user, password) == ~CheckPassword(user.PasswordHash, password)

\* userService.SignIn: what it returns, the calls it makes and the session
\* store it leaves.  token = 0 is the nil response.
UserSignInResult(email, password, getFails, sessionFails) ==
    LET user == GetByEmail(email)
    IN  IF getFails
        THEN [err |-> ErrGetUserByEmail, calls |-> <<Call("GetByEmail", FALSE)>>,
              sessions |-> sessions, token |-> 0]
        ELSE IF user = {}
        THEN [err |-> ErrUserNotFound, calls |-> <<Call("GetByEmail", TRUE)>>,
              sessions |-> sessions, token |-> 0]
        ELSE LET u == CHOOSE x \in user : TRUE
             IN  IF PasswordRejected(u, password)
                 THEN [err |-> ErrInvalidPassword,
                       calls |-> <<Call("GetByEmail", TRUE)>>,
                       sessions |-> sessions, token |-> 0]
                 ELSE IF sessionFails
                 THEN [err |-> ErrCreateSession,
                       calls |-> <<Call("GetByEmail", TRUE),
                                   Call("SessionCreate", FALSE)>>,
                       sessions |-> sessions, token |-> 0]
                 ELSE [err |-> NoErr,
                       calls |-> <<Call("GetByEmail", TRUE),
                                   Call("SessionCreate", TRUE)>>,
                       sessions |-> SessionCreate(u),
                       token |-> SignInResponse(SessionToken).Token]

UserSignIn ==
    /\ Len(sessions) < MaxSessions
    /\ \E email \in Emails, password \in Passwords,
          getFails \in BOOLEAN, sessionFails \in BOOLEAN :
        LET r == UserSignInResult(email, password, getFails, sessionFails)
        IN  /\ sessions' = r.sessions
            /\ ulast' = [op |-> "SignIn", email |-> email, password |-> password,
                         err |-> r.err, calls |-> r.calls, token |-> r.token]
            /\ UNCHANGED <<users, hlast, hprev, reqs, mvars>>

\* ------------------------------------------------------------- user handler

\* Request bodies: one that is not JSON, and JSON payloads whose email may be
\* malformed and whose password may be empty.
MalformedEmail == "invalid-email"

Requests ==
    {[decodes |-> FALSE, email |-> "", password |-> ""]}
    \cup [decodes : {TRUE}, email : Emails \cup {MalformedEmail},
          password : Passwords \cup {""}]

\* Payload.Validate: the fields of the payload that are invalid.
Validate(req) ==
    (IF req.email = MalformedEmail THEN {"email"} ELSE {})
    \cup (IF req.password = "" THEN {"password"} ELSE {})

\* The response bodies of the user handler; errors holds the fields of the
\* body's error list.
DecodeErrorBody ==
    [status |-> 422, title |-> "Unable to Process Request",
     details |-> "We encountered an issue while trying to process your request. The data you provided is not in the expected format.",
     errors |-> {"payload"}]

ValidationErrorBody(fields) ==
    [status |-> 422, title |-> "Validation Error",
     details |-> "One or more fields are invalid.", errors |-> fields]

ConflictBody ==
    [status |-> 409, title |-> "Conflict",
     details |-> "The email is already registered.", errors |-> {}]

UnauthorizedBody ==
    [status |-> 401, title |-> "Unauthorized credentials",
     details |-> "Unauthorized credentials. Review the data sent.", errors |-> {}]

InternalServerErrorBody ==
    [status |-> 500, title |-> "Internal Server Error",
     details |-> "Something went wrong on our end. Please try again later or contact support if the issue persists.",
     errors |-> {}]

\* A response: the status written and the body ({} is an empty body).
Response(status, body) == [status |-> status, body |-> body]

\* The handlers' answer to a body that does not decode or does not validate.
RejectedPayload(req) ==
    IF ~req.decodes THEN Response(422, {DecodeErrorBody})
    ELSE Response(422, {ValidationErrorBody(Validate(req))})

\* userHandler.Create / SignIn with the payload check dropped.
InvalidPayload_Never(req) == FALSE

\* userHandler.Create / SignIn: the body does not bind or payload.Validate()
\* reports a field.
InvalidPayload(req) == ~req.decodes \/ Validate(req) # {}

\* userHandler.SignIn answering an unknown email with 404.
SignInErrorResponse_NotFound404(err) ==
    IF err = ErrUserNotFound
    THEN Response(404, {[status |-> 404, title |-> "Not Found",
                         details |-> "User not found.", errors |-> {}]})
    ELSE IF err = ErrInvalidPassword THEN Response(401, {UnauthorizedBody})
    ELSE Response(500, {InternalServerErrorBody})

\* userHandler.SignIn: the answer to an error of userService.SignIn.
SignInErrorResponse(err) ==
    IF err \in {ErrUserNotFound, ErrInvalidPassword}
    THEN Response(401, {UnauthorizedBody})
    ELSE Response(500, {InternalServerErrorBody})

\* userHandler.Create putting the error's text in the body.
CreateErrorResponse_Leak(err) ==
    IF err = ErrEmailAlreadyRegister THEN Response(409, {ConflictBody})
    ELSE Response(500, {[InternalServerErrorBody EXCEPT !.details = err]})

\* userHandler.Create: the answer to an error of userService.Create.
CreateErrorResponse(err) ==
    IF err = ErrEmailAlreadyRegister THEN Response(409, {ConflictBody})
    ELSE Response(500, {InternalServerErrorBody})

\* An exchange of the user handler: the request, whether the user service was
\* invoked for it and with what error, and the response written.
Exchange(op, req, invoked, err, resp) ==
    [op |-> op, decodes |-> req.decodes, invalid |-> Validate(req),
     invoked |-> invoked, err |-> err, status |-> resp.status, body |-> resp.body]

NoExchange ==
    Exchange("none", [decodes |-> TRUE, email |-> "", password |-> "pw1"],
             FALSE, NoErr, Response(0, {}))

\* POST /v1/users: userHandler.Create, with the userService.Create call it
\* makes for a payload that decodes and validates.
HandlerCreate ==
    \E req \in Requests,
       getFails \in BOOLEAN, hashFails \in BOOLEAN, createFails \in BOOLEAN :
        LET r == UserCreateResult(req.email, req.password, getFails, hashFails,
                                  createFails)
        IN  IF InvalidPayload(req)
            THEN /\ ~getFails /\ ~hashFails /\ ~createFails
                 /\ hlast' = Exchange("Create", req, FALSE, NoErr,
                                      RejectedPayload(req))
                 /\ hprev' = hlast
                 /\ UNCHANGED <<users, sessions, ulast, reqs, mvars>>
            ELSE /\ Drawn(getFails, "GetByEmail", r.calls)
                 /\ hashFails => r.err = ErrHashingPassword
                 /\ Drawn(createFails, "Create", r.calls)
                 /\ users' = r.users
                 /\ ulast' = [op |-> "Create", email |-> req.email,
                              password |-> req.password, err |-> r.err,
                              calls |-> r.calls, token |-> 0]
                 /\ hlast' = Exchange("Create", req, TRUE, r.err,
                                      IF r.err = NoErr THEN Response(201, {})
                                      ELSE CreateErrorResponse(r.err))
                 /\ hprev' = hlast
                 /\ UNCHANGED <<sessions, reqs, mvars>>

\* POST /v1/users/sign-in: userHandler.SignIn, with the userService.SignIn
\* call it makes for a payload that decodes and validates.
HandlerSignIn ==
    /\ Len(sessions) < MaxSessions
    /\ \E req \in Requests, getFails \in BOOLEAN, sessionFails \in BOOLEAN :
        LET r == UserSignInResult(req.email, req.password, getFails, sessionFails)
        IN  IF InvalidPayload(req)
            THEN /\ ~getFails /\ ~sessionFails
                 /\ hlast' = Exchange("SignIn", req, FALSE, NoErr,
                                      RejectedPayload(req))
                 /\ hprev' = hlast
                 /\ UNCHANGED <<users, sessions, ulast, reqs, mvars>>
            ELSE /\ Drawn(getFails, "GetByEmail", r.calls)
                 /\ Drawn(sessionFails, "SessionCreate", r.calls)
                 /\ sessions' = r.sessions
                 /\ ulast' = [op |-> "SignIn", email |-> req.email,
                              password |-> req.password, err |-> r.err,
                              calls |-> r.calls, token |-> r.token]
                 /\ hlast' = Exchange("SignIn", req, TRUE, r.err,
                                      IF r.err = NoErr
                                      THEN Response(200, {[token |-> r.token]})
                                      ELSE SignInErrorResponse(r.err))
                 /\ hprev' = hlast
                 /\ UNCHANGED <<users, reqs, mvars>>

\* --------------------------------------------- concurrent sign-up requests

\* Requests to POST /v1/users served at the same time, each by its own
\* goroutine: a request runs userService.Create one repository call at a time.
MaxRequests == 2

\* A request that has not called the repository yet.
NewRequest ==
    [pc |-> "start", email |-> "", password |-> "", err |-> NoErr,
     calls |-> <<>>, fault |-> FALSE]

Finished(req, err, calls, fault) ==
    [req EXCEPT !.pc = "done", !.err = err, !.calls = req.calls \o calls,
                !.fault = fault]

\* userService.Create, lines 44-53, of request p: the GetByEmail call and the
\* test of its result.
CreateLookup(p) ==
    /\ reqs[p].pc = "start"
    /\ \E email \in Emails, password \in Passwords, getFails \in BOOLEAN :
        LET user == GetByEmail(email)
            req == [reqs[p] EXCEPT !.email = email, !.password = password]
        IN  reqs' = [reqs EXCEPT ![p] =
                IF getFails
                THEN Finished(req, ErrGetUserByEmail,
                              <<Call("GetByEmail", FALSE)>>, TRUE)
                ELSE IF AlreadyRegistered(user)
                THEN Finished(req, ErrEmailAlreadyRegister,
                              <<Call("GetByEmail", TRUE)>>, FALSE)
                ELSE [req EXCEPT !.pc = "insert",
                                 !.calls = <<Call("GetByEmail", TRUE)>>]]
    /\ UNCHANGED <<users, sessions, ulast, hlast, hprev, mvars>>

\* userService.Create, lines 55-69, of request p: the password hash and the
\* userRepository.Create call.  Table User's schema is not known: an INSERT of
\* an email that has a row by now is either accepted or refused by the table
\* (unique), and a refused INSERT is an error of userRepository.Create.
CreateInsert(p) ==
    /\ reqs[p].pc = "insert"
    /\ \E hashFails \in BOOLEAN, createFails \in BOOLEAN, unique \in BOOLEAN :
        LET req == reqs[p]
            user == ToUser(req.email, HashPassword(req.password))
            duplicate == GetByEmail(req.email) # {}
        IN  /\ ~(hashFails /\ createFails)
            /\ unique => (duplicate /\ ~hashFails /\ ~createFails)
            /\ IF hashFails
               THEN /\ reqs' = [reqs EXCEPT ![p] =
                                   Finished(req, ErrHashingPassword, <<>>, TRUE)]
                    /\ users' = users
               ELSE IF createFails \/ unique
               THEN /\ reqs' = [reqs EXCEPT ![p] =
                                   Finished(req, ErrCreateUser,
                                            <<Call("Create", FALSE)>>, createFails)]
                    /\ users' = users
               ELSE /\ reqs' = [reqs EXCEPT ![p] =
                                   Finished(req, NoErr, <<Call("Create", TRUE)>>,
                                            FALSE)]
                    /\ users' = RepoCreateUser(user)
    /\ UNCHANGED <<sessions, ulast, hlast, hprev, mvars>>

\* ------------------------------------------------------------ movie service

\* Session users (ctx.Value(SessionKey)); NoSession is a context without one.
UserIDs == {1, 2}
NoSession == 0

\* Table IndicativeRating, read-only; RatingIDs also holds an id of no row.
IndicativeRatings == {[ID |-> 1, Description |-> "L"], [ID |-> 2, Description |-> "14"]}
RatingIDs == {1, 2, 3}

Titles == {"t1", "t2"}
Durations == {90, 120}

\* Uploaded files of a multipart payload; "X" cannot be opened or read.
ImageFiles == {"A", "X"}

MaxMovies == 1
MaxImages == 2
MaxQueue == 2
MaxUploads == 2

ErrUserNotFoundInContext == "ErrUserNotFoundInContext"
ErrIndicativeRatingNotFound == "ErrIndicativeRatingNotFound"
ErrMoviesNotFound == "ErrMoviesNotFound"
ErrMovieNotBelongUser == "ErrMovieNotBelongUser"
ErrInfra == "wrapped infrastructure error"

AnyFailed(calls) == \E i \in 1..Len(calls) : ~calls[i].ok

CountCalls(calls, fn, ok) ==
    Cardinality({i \in 1..Len(calls) : calls[i].fn = fn /\ calls[i].ok = ok})

\* Sequences over S of length at most n.
SeqUpTo(S, n) == UNION {[1..k -> S] : k \in 0..n}

\* movieRepository.GetIndicativeRatingByID: the row, or nil (the empty set).
GetIndicativeRatingByID(id) == {r \in IndicativeRatings : r.ID = id}

\* utils.ConvertImageToBytes: the file's bytes, or an error.
ConvertImageToBytes(image) ==
    IF image = "X" THEN [ok |-> FALSE, bytes |-> <<>>]
    ELSE [ok |-> TRUE, bytes |-> <<"bytes", image>>]

\* MoviePayload.ToMovie: uuid.New() is a fresh id.
ToMovie(payload, userID) ==
    [ID |-> Len(movies) + 1, IndicativeRatingID |-> payload.IndicativeRatingID,
     UserID |-> userID, Title |-> payload.Title, Duration |-> payload.Duration]

\* IndicativeRating.ToIndicativeRatingResponse
ToIndicativeRatingResponse(rating) == [ID |-> rating.ID, Description |-> rating.Description]

\* Movie.ToMovieResponse of a movie just built by ToMovie (no images loaded),
\* with the rating response Create attaches to it.
ToMovieResponse(movie, ratingResponse) ==
    [ID |-> movie.ID, Title |-> movie.Title, Duration |-> movie.Duration,
     IndicativeRating |-> ratingResponse, MovieImages |-> <<>>]

\* movieService.Create, line 88 (`continue`), as a `break`: the index of the
\* image the loop turns to after one that does not convert.
AfterConvertError_Break(i, n) == n + 1

\* movieService.Create, line 88: `continue`.
AfterConvertError(i, n) == i + 1

\* movieService.Create, lines 97-99, returning the push error.
AfterPushError_Return(err) == ErrInfra

\* movieService.Create, lines 97-99: a failed push is logged; the error the
\* request carries on with is unchanged.
AfterPushError(err) == err

\* movieService.Create, lines 84-100: the loop over payload.Images from index
\* i on. acc = [queue, calls, err]; pushOK[i] is whether the push of image i
\* succeeds.
RECURSIVE UploadLoop(_, _, _, _, _, _)
UploadLoop(images, pushOK, movieID, userID, i, acc) ==
    IF i > Len(images) \/ acc.err # NoErr THEN acc
    ELSE LET conv == ConvertImageToBytes(images[i])
             task == [MovieID |-> movieID, Image |-> conv.bytes, UserID |-> userID]
         IN  IF ~conv.ok
             THEN UploadLoop(images, pushOK, movieID, userID,
                             AfterConvertError(i, Len(images)),
                             [acc EXCEPT !.calls =
                                 Append(@, Call("ConvertImageToBytes", FALSE))])
             ELSE IF pushOK[i]
             THEN UploadLoop(images, pushOK, movieID, userID, i + 1,
                             [acc EXCEPT
                                 !.calls = @ \o <<Call("ConvertImageToBytes", TRUE),
                                                  Call("AddUploadTaskToQueue", TRUE)>>,
                                 !.queue = Append(@, task)])
             ELSE UploadLoop(images, pushOK, movieID, userID, i + 1,
                             [acc EXCEPT
                                 !.calls = @ \o <<Call("ConvertImageToBytes", TRUE),
                                                  Call("AddUploadTaskToQueue", FALSE)>>,
                                 !.err = AfterPushError(@)])

\* movieService.Create, lines 74-76, with the nil test dropped.
RatingMissing_Never(rating) == FALSE

\* movieService.Create, lines 74-76: `if indicativeRating == nil`.
RatingMissing(rating) == rating = {}

\* movieService.Create: what it returns, the calls it makes, and the Movie
\* table and upload queue it leaves.  resp = {} is the nil response.
MovieCreateResult(session, payload, ratingFails, createFails, pushOK) ==
    LET rating == GetIndicativeRatingByID(payload.IndicativeRatingID)
        same == [movies |-> movies, queue |-> uploadQ, resp |-> {}]
    IN  IF session = NoSession
        THEN same @@ [err |-> ErrUserNotFoundInContext, calls |-> <<>>]
        ELSE IF ratingFails
        THEN same @@ [err |-> ErrInfra,
                      calls |-> <<Call("GetIndicativeRatingByID", FALSE)>>]
        ELSE IF RatingMissing(rating)
        THEN same @@ [err |-> ErrIndicativeRatingNotFound,
                      calls |-> <<Call("GetIndicativeRatingByID", TRUE)>>]
        ELSE IF createFails
        THEN same @@ [err |-> ErrInfra,
                      calls |-> <<Call("GetIndicativeRatingByID", TRUE),
                                  Call("Create", FALSE)>>]
        ELSE LET movie == ToMovie(payload, session)
                 loop == UploadLoop(payload.Images, pushOK, movie.ID, session, 1,
                            [queue |-> uploadQ, err |-> NoErr,
                             calls |-> <<Call("GetIndicativeRatingByID", TRUE),
                                         Call("Create", TRUE)>>])
                 r == IF rating = {} THEN [ID |-> 0, Description |-> ""]
                      ELSE CHOOSE x \in rating : TRUE
             IN  [movies |-> Append(movies, movie), queue |-> loop.queue,
                  calls |-> loop.calls, err |-> loop.err,
                  resp |-> IF loop.err = NoErr
                           THEN {ToMovieResponse(movie, ToIndicativeRatingResponse(r))}
                           ELSE {}]

\* The most recent call: its arguments (absent ones are 0, {} or <<>>), the
\* collaborator calls it made, the movie it passed to movieRepository.Update
\* ({} if it passed none) and what it returned.
LastCall(op, session, id, cf, rating, title, duration, images, r) ==
    [op |-> op, session |-> session, id |-> id, cf |-> cf, rating |-> rating,
     title |-> title, duration |-> duration, images |-> images,
     err |-> r.err, calls |-> r.calls, resp |-> r.resp,
     passed |-> IF "passed" \in DOMAIN r THEN r.passed ELSE {}]

\* Whether push i succeeds is drawn only for an image that reaches the push.
DrawnPushes(images, pushOK) ==
    \A i \in 1..Len(images) : ~ConvertImageToBytes(images[i]).ok => pushOK[i]

MoviePayloads ==
    [IndicativeRatingID : RatingIDs, Title : Titles, Duration : Durations,
     Images : SeqUpTo(ImageFiles, MaxImages)]

\* POST /v1/admin/movies with a payload of the given set.
MovieCreateOf(payloads) ==
    \E session \in UserIDs \cup {NoSession}, payload \in payloads,
       ratingFails \in BOOLEAN, createFails \in BOOLEAN :
      \E pushOK \in [1..Len(payload.Images) -> BOOLEAN] :
        LET r == MovieCreateResult(session, payload, ratingFails, createFails, pushOK)
        IN  /\ Len(movies) < MaxMovies
            /\ Len(uploadQ) + Len(payload.Images) <= MaxQueue
            /\ Drawn(ratingFails, "GetIndicativeRatingByID", r.calls)
            /\ Drawn(createFails, "Create", r.calls)
            /\ DrawnPushes(payload.Images, pushOK)
            /\ movies' = r.movies
            /\ uploadQ' = r.queue
            /\ requested' = IF Len(r.movies) > Len(movies)
                            THEN Append(requested, Len(payload.Images))
                            ELSE requested
            /\ faulted' = (faulted \/ AnyFailed(r.calls))
            /\ last' = LastCall("Create", session, 0, 0, {payload.IndicativeRatingID},
                                {}, {}, payload.Images, r)
            /\ UNCHANGED <<movieImages, remote, nextCf, deleteQ, uploads, deleted,
                           uvars>>

\* The MovieImage rows of a movie in primary-key order (Preload("Images")).
RECURSIVE SortByID(_)
SortByID(rows) ==
    IF rows = {} THEN <<>>
    ELSE LET first == CHOOSE x \in rows : \A y \in rows : x.ID <= y.ID
         IN  <<first>> \o SortByID(rows \ {first})

\* movieRepository.GetByID(ctx, ID, true): the movie with its rating and
\* images preloaded, or nil (the empty set).
GetByID(id) ==
    IF id \in 1..Len(movies)
    THEN {[ID |-> id, IndicativeRatingID |-> movies[id].IndicativeRatingID,
           UserID |-> movies[id].UserID, Title |-> movies[id].Title,
           Duration |-> movies[id].Duration,
           IndicativeRating |-> GetIndicativeRatingByID(movies[id].IndicativeRatingID),
           Images |-> SortByID({im \in movieImages : im.MovieID = id})]}
    ELSE {}

\* movieRepository.Update: the row's columns written from the struct.
RepoUpdateMovie(movie) ==
    [movies EXCEPT ![movie.ID] =
        [ID |-> movie.ID, IndicativeRatingID |-> movie.IndicativeRatingID,
         UserID |-> movie.UserID, Title |-> movie.Title, Duration |-> movie.Duration]]

\* Movie.ToMovieResponse of a loaded movie.
LoadedMovieResponse(movie) ==
    [ID |-> movie.ID, Title |-> movie.Title, Duration |-> movie.Duration,
     IndicativeRating |->
        LET r == IF movie.IndicativeRating = {} THEN [ID |-> 0, Description |-> ""]
                 ELSE CHOOSE x \in movie.IndicativeRating : TRUE
        IN  ToIndicativeRatingResponse(r),
     MovieImages |-> [i \in 1..Len(movie.Images) |->
                        [ID |-> movie.Images[i].ID,
                         ImageURL |-> movie.Images[i].ImageURL]]]

\* movieService.Update / Delete, lines 149 and 200, with the test dropped.
NotOwner_Never(movie, session) == FALSE

\* movieService.Update / Delete, lines 149 and 200:
\* `if movie.UserID != session.UserID`.
NotOwner(movie, session) == movie.UserID # session

\* movieService.Update: what it returns, the calls it makes and the Movie
\* table it leaves.  An absent payload field is {}, a supplied one {v}.
MovieUpdateResult(session, id, payload, getFails, ratingFails, updateFails) ==
    LET found == GetByID(id)
        same == [movies |-> movies, resp |-> {}]
    IN  IF session = NoSession
        THEN same @@ [err |-> ErrUserNotFoundInContext, calls |-> <<>>]
        ELSE IF getFails
        THEN same @@ [err |-> ErrInfra, calls |-> <<Call("GetByID", FALSE)>>]
        ELSE IF found = {}
        THEN same @@ [err |-> ErrMoviesNotFound, calls |-> <<Call("GetByID", TRUE)>>]
        ELSE LET movie == CHOOSE m \in found : TRUE
                 newRating == IF payload.IndicativeRatingID = {} THEN {}
                              ELSE GetIndicativeRatingByID(
                                      CHOOSE x \in payload.IndicativeRatingID : TRUE)
                 lookup == IF payload.IndicativeRatingID = {} THEN <<>>
                           ELSE <<Call("GetIndicativeRatingByID", ~ratingFails)>>
                 m1 == IF payload.IndicativeRatingID = {} THEN movie
                       ELSE [movie EXCEPT !.IndicativeRating = newRating]
                 m2 == IF payload.Title = {} THEN m1
                       ELSE [m1 EXCEPT !.Title = CHOOSE x \in payload.Title : TRUE]
                 m3 == IF payload.Duration = {} THEN m2
                       ELSE [m2 EXCEPT !.Duration = CHOOSE x \in payload.Duration : TRUE]
             IN  IF NotOwner(movie, session)
                 THEN same @@ [err |-> ErrMovieNotBelongUser,
                               calls |-> <<Call("GetByID", TRUE)>>]
                 ELSE IF payload.IndicativeRatingID # {} /\ ratingFails
                 THEN same @@ [err |-> ErrInfra,
                               calls |-> <<Call("GetByID", TRUE)>> \o lookup]
                 ELSE IF payload.IndicativeRatingID # {} /\ newRating = {}
                 THEN same @@ [err |-> ErrIndicativeRatingNotFound,
                               calls |-> <<Call("GetByID", TRUE)>> \o lookup]
                 ELSE IF updateFails
                 THEN same @@ [err |-> ErrInfra, passed |-> {m3},
                               calls |-> <<Call("GetByID", TRUE)>> \o lookup
                                          \o <<Call("Update", FALSE)>>]
                 ELSE [movies |-> RepoUpdateMovie(m3), passed |-> {m3},
                       resp |-> {LoadedMovieResponse(m3)}, err |-> NoErr,
                       calls |-> <<Call("GetByID", TRUE)>> \o lookup
                                  \o <<Call("Update", TRUE)>>]

Optional(S) == {{}} \cup {{x} : x \in S}

MovieUpdatePayloads ==
    [IndicativeRatingID : Optional(RatingIDs), Title : Optional(Titles),
     Duration : Optional(Durations)]

\* An update of a movie with a payload of the given set.
MovieUpdateOf(payloads) ==
    \E session \in UserIDs \cup {NoSession}, id \in 1..MaxMovies,
       payload \in payloads,
       getFails \in BOOLEAN, ratingFails \in BOOLEAN, updateFails \in BOOLEAN :
        LET r == MovieUpdateResult(session, id, payload, getFails, ratingFails,
                                   updateFails)
        IN  /\ Drawn(getFails, "GetByID", r.calls)
            /\ Drawn(ratingFails, "GetIndicativeRatingByID", r.calls)
            /\ Drawn(updateFails, "Update", r.calls)
            /\ movies' = r.movies
            /\ faulted' = (faulted \/ AnyFailed(r.calls))
            /\ last' = LastCall("Update", session, id, 0, payload.IndicativeRatingID,
                                payload.Title, payload.Duration, <<>>, r)
            /\ UNCHANGED <<movieImages, remote, nextCf, uploadQ, deleteQ, uploads,
                           requested, deleted, uvars>>

\* movieService.Delete, lines 209-211, leaving the loop at a failed push: the
\* index of the image the loop turns to next.
AfterDeletePushError_Break(i, n) == n + 1

\* movieService.Delete, lines 209-211: a failed push is logged and the loop
\* goes on with the next image.
AfterDeletePushError(i, n) == i + 1

\* movieService.Delete, lines 204-212: the loop over movie.Images from index
\* i on; pushOK[i] is whether the push of image i's task succeeds.
RECURSIVE DeleteLoop(_, _, _, _)
DeleteLoop(images, pushOK, i, acc) ==
    IF i > Len(images) THEN acc
    ELSE LET task == [CloudFlareID |-> images[i].CloudFlareID]
         IN  IF pushOK[i]
             THEN DeleteLoop(images, pushOK, i + 1,
                    [acc EXCEPT !.calls = Append(@, Call("AddDeleteTaskToQueue", TRUE)),
                                !.queue = Append(@, task)])
             ELSE DeleteLoop(images, pushOK, AfterDeletePushError(i, Len(images)),
                    [acc EXCEPT !.calls = Append(@, Call("AddDeleteTaskToQueue", FALSE))])

\* movieService.Delete, lines 204-214, deleting the image rows itself.
ImagesAfterDelete_Sync(movie) == {im \in movieImages : im.MovieID # movie.ID}

\* movieService.Delete, lines 204-214: the MovieImage table it leaves; it
\* makes no repository call other than the pushes.
ImagesAfterDelete(movie) == movieImages

\* movieService.Delete: what it returns, the calls it makes, and the delete
\* queue and MovieImage table it leaves.
MovieDeleteResult(session, id, getFails, pushOK) ==
    LET found == GetByID(id)
        same == [queue |-> deleteQ, movieImages |-> movieImages, resp |-> {}]
    IN  IF session = NoSession
        THEN same @@ [err |-> ErrUserNotFoundInContext, calls |-> <<>>]
        ELSE IF getFails
        THEN same @@ [err |-> ErrInfra, calls |-> <<Call("GetByID", FALSE)>>]
        ELSE IF found = {}
        THEN same @@ [err |-> ErrMoviesNotFound, calls |-> <<Call("GetByID", TRUE)>>]
        ELSE LET movie == CHOOSE m \in found : TRUE
                 loop == DeleteLoop(movie.Images, pushOK, 1,
                            [queue |-> deleteQ, calls |-> <<Call("GetByID", TRUE)>>])
             IN  IF NotOwner(movie, session)
                 THEN same @@ [err |-> ErrMovieNotBelongUser,
                               calls |-> <<Call("GetByID", TRUE)>>]
                 ELSE [queue |-> loop.queue, calls |-> loop.calls, err |-> NoErr,
                       movieImages |-> ImagesAfterDelete(movie), resp |-> {}]

MovieDelete ==
    \E session \in UserIDs \cup {NoSession}, id \in 1..MaxMovies,
       getFails \in BOOLEAN :
      \E pushOK \in [1..Cardinality({im \in movieImages : im.MovieID = id})
                        -> BOOLEAN] :
        LET r == MovieDeleteResult(session, id, getFails, pushOK)
        IN  /\ Len(r.queue) <= MaxQueue
            /\ Drawn(getFails, "GetByID", r.calls)
            /\ \A i \in DOMAIN pushOK :
                  ~pushOK[i] => CountCalls(r.calls, "AddDeleteTaskToQueue", FALSE) > 0
            /\ deleteQ' = r.queue
            /\ movieImages' = r.movieImages
            /\ faulted' = (faulted \/ AnyFailed(r.calls))
            /\ deleted' = IF r.err = NoErr THEN deleted \cup {id} ELSE deleted
            /\ last' = LastCall("Delete", session, id, 0, {}, {}, {}, <<>>, r)
            /\ UNCHANGED <<movies, remote, nextCf, uploadQ, uploads, requested,
                           uvars>>

\* cloudFlareService.UploadImage: the public URL of a stored object.
ImageURL(cfID) == <<"https://images/", cfID>>

\* movieService.ProcessUploadQueue, lines 224-229, with the URL left out.
NewMovieImage_NoURL(task, response, id) ==
    [ID |-> id, MovieID |-> task.MovieID, ImageURL |-> <<>>,
     CloudFlareID |-> response.ID]

\* movieService.ProcessUploadQueue, lines 224-229: the row built from the task
\* and the remote store's response; id is the fresh uuid.New().
NewMovieImage(task, response, id) ==
    [ID |-> id, MovieID |-> task.MovieID, ImageURL |-> response.URL,
     CloudFlareID |-> response.ID]

\* cloudFlareService.UploadImage: the response for the object stored next.
UploadResponse == [URL |-> ImageURL(nextCf), ID |-> nextCf]

\* movieService.ProcessUploadQueue, lines 220-222, carrying on after a
\* failed upload with the identifier the store would have given.
UploadRejected_Never(uploadFails) == FALSE

\* movieService.ProcessUploadQueue, lines 220-222: `if err != nil` after
\* UploadImage.
UploadRejected(uploadFails) == uploadFails

\* movieService.ProcessUploadQueue on one task: what it returns, the calls it
\* makes, and the remote store and MovieImage table it leaves.
ProcessUploadResult(task, uploadFails, insertFails) ==
    LET response == UploadResponse
        movieImage == NewMovieImage(task, response, nextCf)
        stored == IF uploadFails THEN remote ELSE remote \cup {nextCf}
    IN  IF UploadRejected(uploadFails)
        THEN [err |-> ErrInfra, calls |-> <<Call("UploadImage", FALSE)>>,
              remote |-> remote, movieImages |-> movieImages, resp |-> {}]
        ELSE IF insertFails
        THEN [err |-> ErrInfra,
              calls |-> <<Call("UploadImage", ~uploadFails),
                          Call("CreateMovieImage", FALSE)>>,
              remote |-> stored, movieImages |-> movieImages, resp |-> {}]
        ELSE [err |-> NoErr,
              calls |-> <<Call("UploadImage", ~uploadFails),
                          Call("CreateMovieImage", TRUE)>>,
              remote |-> stored, movieImages |-> movieImages \cup {movieImage},
              resp |-> {}]

\* The upload worker's step: the task at the head of the queue is pulled and
\* handed to movieService.ProcessUploadQueue; the pulled task is gone from the
\* queue whatever the result.
ProcessUploadQueue ==
    /\ uploadQ # <<>>
    /\ nextCf <= MaxUploads
    /\ \E uploadFails \in BOOLEAN, insertFails \in BOOLEAN :
        LET task == Head(uploadQ)
            r == ProcessUploadResult(task, uploadFails, insertFails)
            uploaded == ~uploadFails
        IN  /\ ~(uploadFails /\ insertFails)
            /\ uploadQ' = Tail(uploadQ)
            /\ remote' = r.remote
            /\ movieImages' = r.movieImages
            /\ nextCf' = IF uploaded THEN nextCf + 1 ELSE nextCf
            /\ uploads' = IF uploaded
                          THEN Append(uploads, [MovieID |-> task.MovieID,
                                                URL |-> UploadResponse.URL])
                          ELSE uploads
            /\ faulted' = (faulted \/ AnyFailed(r.calls))
            /\ last' = LastCall("ProcessUploadQueue", NoSession, task.MovieID, 0,
                                {}, {}, {}, <<>>, r)
            /\ UNCHANGED <<movies, deleteQ, requested, deleted, uvars>>

\* movieRepository.DeleteMovieImage: DELETE ... WHERE cloudFlareId = ?.
RepoDeleteMovieImage(cfID) == {im \in movieImages : im.CloudFlareID # cfID}

\* movieService.ProcessDeleteQueue, lines 239-241, carrying on after a failed
\* remote delete.
RemoteDeleteRejected_Never(remoteFails) == FALSE

\* movieService.ProcessDeleteQueue, lines 239-241: `if err := DeleteImage(...)`.
RemoteDeleteRejected(remoteFails) == remoteFails

\* movieService.ProcessDeleteQueue on one task: what it returns, the calls it
\* makes, and the remote store and MovieImage table it leaves.
ProcessDeleteResult(task, remoteFails, dbFails) ==
    LET stored == IF remoteFails THEN remote ELSE remote \ {task.CloudFlareID}
    IN  IF RemoteDeleteRejected(remoteFails)
        THEN [err |-> ErrInfra, calls |-> <<Call("DeleteImage", FALSE)>>,
              remote |-> remote, movieImages |-> movieImages, resp |-> {}]
        ELSE IF dbFails
        THEN [err |-> ErrInfra,
              calls |-> <<Call("DeleteImage", ~remoteFails),
                          Call("DeleteMovieImage", FALSE)>>,
              remote |-> stored, movieImages |-> movieImages, resp |-> {}]
        ELSE [err |-> NoErr,
              calls |-> <<Call("DeleteImage", ~remoteFails),
                          Call("DeleteMovieImage", TRUE)>>,
              remote |-> stored,
              movieImages |-> RepoDeleteMovieImage(task.CloudFlareID), resp |-> {}]

\* The delete worker's step: the task at the head of the queue is pulled and
\* handed to movieService.ProcessDeleteQueue.
ProcessDeleteQueue ==
    /\ deleteQ # <<>>
    /\ \E remoteFails \in BOOLEAN, dbFails \in BOOLEAN :
        LET task == Head(deleteQ)
            r == ProcessDeleteResult(task, remoteFails, dbFails)
        IN  /\ ~(remoteFails /\ dbFails)
            /\ deleteQ' = Tail(deleteQ)
            /\ remote' = r.remote
            /\ movieImages' = r.movieImages
            /\ faulted' = (faulted \/ AnyFailed(r.calls))
            /\ last' = LastCall("ProcessDeleteQueue", NoSession, 0, task.CloudFlareID,
                                {}, {}, {}, <<>>, r)
            /\ UNCHANGED <<movies, nextCf, uploadQ, uploads, requested, deleted,
                           uvars>>

UserInit ==
    /\ users = {}
    /\ sessions = <<>>
    /\ ulast = [op |-> "none", email |-> "", password |-> "",
                err |-> NoErr, calls |-> <<>>, token |-> 0]
    /\ hlast = NoExchange
    /\ hprev = NoExchange
    /\ reqs = [p \in 1..MaxRequests |-> NewRequest]

MovieInit ==
    /\ movies = <<>>
    /\ movieImages = {}
    /\ remote = {}
    /\ nextCf = 1
    /\ uploadQ = <<>>
    /\ deleteQ = <<>>
    /\ uploads = <<>>
    /\ requested = <<>>
    /\ deleted = {}
    /\ faulted = FALSE
    /\ last = LastCall("none", NoSession, 0, 0, {}, {}, {}, <<>>,
                       [err |-> NoErr, calls |-> <<>>, resp |-> {}])

Init == UserInit /\ MovieInit

UserNext ==
    \/ UserCreate
    \/ UserSignIn

RaceNext ==
    \E p \in 1..MaxRequests :
        \/ CreateLookup(p)
        \/ CreateInsert(p)

HandlerNext ==
    \/ HandlerCreate
    \/ HandlerSignIn

\* The payloads of the image pipeline: one title and duration, a stored and
\* an unknown rating, every list of images.
PipelinePayloads ==
    [IndicativeRatingID : {1, 3}, Title : {"t1"}, Duration : {90},
     Images : SeqUpTo(ImageFiles, MaxImages)]

\* Update payloads that leave the rating and the duration alone.
TitleUpdates ==
    [IndicativeRatingID : {{}}, Title : Optional(Titles), Duration : {{}}]

MovieCreate == MovieCreateOf(PipelinePayloads)

MovieUpdate == MovieUpdateOf(TitleUpdates)

\* Payloads without images, of every rating, title and duration.
PlainPayloads ==
    [IndicativeRatingID : RatingIDs, Title : Titles, Duration : Durations,
     Images : {<<>>}]

\* The movie catalogue alone: creation without images, and every update.
CatalogueCreate == MovieCreateOf(PlainPayloads)

CatalogueUpdate == MovieUpdateOf(MovieUpdatePayloads)

CatalogueNext ==
    \/ CatalogueCreate
    \/ CatalogueUpdate

MovieNext ==
    \/ MovieCreate
    \/ MovieUpdate
    \/ MovieDelete
    \/ ProcessUploadQueue
    \/ ProcessDeleteQueue

Next == UserNext \/ HandlerNext \/ RaceNext \/ CatalogueNext \/ MovieNext

Spec == Init /\ [][Next]_vars

\* The user service alone and the movie service alone: they share no state.
UserSpec == Init /\ [][UserNext]_vars

MovieSpec == Init /\ [][MovieNext]_vars

\* Sign-up requests served concurrently.
RaceSpec == Init /\ [][RaceNext]_vars

CatalogueSpec == Init /\ [][CatalogueNext]_vars

\* The user service behind its HTTP handler.
HandlerSpec == Init /\ [][HandlerNext]_vars

\* ------------------------------------------------------------------- claims

\* The rows of table User registered under an email.
Registered(email) == {u \in users : u.Email = email}

LookedUp(calls, fn) == calls # <<>> /\ calls[1] = Call(fn, TRUE)

\* C1: userService.Create with an email that is already registered (GetByEmail
\* returns a row) returns ErrEmailAlreadyRegister, never calls
\* userRepository.Create, and leaves the set of stored users unchanged.
C1_DuplicateEmailRejected ==
    [][(/\ ulast'.op = "Create"
        /\ Registered(ulast'.email) # {}
        /\ LookedUp(ulast'.calls, "GetByEmail"))
       => (/\ ulast'.err = ErrEmailAlreadyRegister
           /\ ~Called(ulast'.calls, "Create")
           /\ users' = users)]_vars

C1_Witness ==
    /\ ulast.op = "Create"
    /\ ulast.err = ErrEmailAlreadyRegister
    /\ Registered(ulast.email) # {}

\* C2: userService.SignIn, once GetByEmail has answered, returns
\* ErrInvalidPassword when the email is registered and the password does not
\* match, ErrUserNotFound when the email is not registered; in both cases
\* sessionService.Create is not called, the session store is unchanged and no
\* token is returned.
C2_SignInRejections ==
    [][(ulast'.op = "SignIn" /\ LookedUp(ulast'.calls, "GetByEmail"))
       => LET reg == Registered(ulast'.email)
              mismatch == \A u \in reg : u.PasswordHash # HashPassword(ulast'.password)
              rejected == reg = {} \/ mismatch
          IN  /\ reg = {} => ulast'.err = ErrUserNotFound
              /\ (reg # {} /\ mismatch) => ulast'.err = ErrInvalidPassword
              /\ rejected => (/\ ~Called(ulast'.calls, "SessionCreate")
                              /\ ulast'.token = 0
                              /\ sessions' = sessions)]_vars

C2_Witness ==
    /\ ulast.op = "SignIn"
    /\ ulast.err = ErrInvalidPassword
    /\ Registered(ulast.email) # {}
    /\ \A u \in Registered(ulast.email) : u.PasswordHash # HashPassword(ulast.password)
    /\ sessions # <<>>


\* The number of tasks a step appends to the upload queue.
Enqueued == Len(uploadQ') - Len(uploadQ)

\* C3: movieService.Create with an IndicativeRatingID that matches no stored
\* rating returns ErrIndicativeRatingNotFound before movieRepository.Create is
\* called: no Movie row is written and no upload task is enqueued.
C3_UnknownRatingRejected ==
    [][(/\ last'.op = "Create"
        /\ LookedUp(last'.calls, "GetIndicativeRatingByID")
        /\ \A r \in IndicativeRatings : r.ID \notin last'.rating)
       => (/\ last'.err = ErrIndicativeRatingNotFound
           /\ last'.resp = {}
           /\ ~Called(last'.calls, "Create")
           /\ ~Called(last'.calls, "AddUploadTaskToQueue")
           /\ movies' = movies
           /\ uploadQ' = uploadQ)]_vars

C3_Witness ==
    /\ last.op = "Create"
    /\ last.err = ErrIndicativeRatingNotFound
    /\ last.rating = {3}
    /\ \E i \in 1..Len(last.images) : last.images[i] = "A"
    /\ movies = <<>>
    /\ uploadQ = <<>>

\* C4: for a movie whose UserID differs from the session user's id,
\* movieService.Delete returns ErrMovieNotBelongUser (once GetByID has
\* returned the movie) and enqueues no delete task, and movieService.Update
\* returns ErrMovieNotBelongUser without calling movieRepository.Update; the
\* stored movie, its images and both queues are unchanged.
C4_NotOwnerRejected ==
    [][(/\ last'.op \in {"Delete", "Update"}
        /\ last'.id \in 1..Len(movies)
        /\ last'.session # NoSession
        /\ movies[last'.id].UserID # last'.session)
       => (/\ LookedUp(last'.calls, "GetByID") => last'.err = ErrMovieNotBelongUser
           /\ last'.err # NoErr
           /\ ~Called(last'.calls, "Update")
           /\ ~Called(last'.calls, "AddDeleteTaskToQueue")
           /\ UNCHANGED <<movies, movieImages, uploadQ, deleteQ>>)]_vars

C4_Witness ==
    /\ last.op = "Delete"
    /\ last.err = ErrMovieNotBelongUser
    /\ last.id \in 1..Len(movies)
    /\ movies[last.id].UserID # last.session
    /\ \E im \in movieImages : im.MovieID = last.id
    /\ deleteQ = <<>>

\* C5: a movieService.Create call with N images adds at most N upload tasks;
\* an image whose conversion fails is skipped without stopping the loop, so
\* every image that converts gets its enqueue attempt, and the number of tasks
\* added is the number of images that convert and are pushed successfully.
C5_UploadTasksPerImage ==
    [][last'.op = "Create"
       => LET images == last'.images
              converted == {i \in 1..Len(images) : images[i] # "X"}
              pushed == CountCalls(last'.calls, "AddUploadTaskToQueue", TRUE)
              dropped == CountCalls(last'.calls, "AddUploadTaskToQueue", FALSE)
          IN  /\ Enqueued <= Len(images)
              /\ Enqueued = pushed
              /\ SubSeq(uploadQ', 1, Len(uploadQ)) = uploadQ
              /\ Called(last'.calls, "Create") /\ last'.err = NoErr
                 => pushed + dropped = Cardinality(converted)
              /\ \A k \in Len(uploadQ) + 1 .. Len(uploadQ') :
                    /\ uploadQ'[k].MovieID = Len(movies')
                    /\ uploadQ'[k].UserID = last'.session]_vars

C5_Witness ==
    /\ last.op = "Create"
    /\ last.err = NoErr
    /\ last.images = <<"X", "A">>
    /\ CountCalls(last.calls, "AddUploadTaskToQueue", TRUE) = 1
    /\ Len(uploadQ) = 1

\* The MovieImage rows of a movie.
ImagesOf(m) == {im \in movieImages : im.MovieID = m}

\* The remote identifiers the store has given to uploads of a movie.
UploadedFor(m) == {c \in 1..Len(uploads) : uploads[c].MovieID = m}

Drained(m) == \A k \in 1..Len(uploadQ) : uploadQ[k].MovieID # m

\* C6: with no failures, after movieService.Create with a payload of k images
\* and after the consumer has run ProcessUploadQueue on every enqueued task
\* (and before any image of the movie is deleted), exactly k MovieImage rows
\* exist for the movie, each with the movie's id and the URL and remote id the
\* remote store returned for its upload.
C6_EndToEnd ==
    \A m \in 1..Len(movies) :
        (~faulted /\ Drained(m) /\ UploadedFor(m) \subseteq remote)
        => /\ Cardinality(ImagesOf(m)) = requested[m]
           /\ \A im \in ImagesOf(m) :
                /\ im.CloudFlareID \in UploadedFor(m)
                /\ im.ImageURL = uploads[im.CloudFlareID].URL
           /\ \A c \in UploadedFor(m) :
                Cardinality({im \in ImagesOf(m) : im.CloudFlareID = c}) = 1

C6_Witness ==
    /\ ~faulted
    /\ Len(movies) = 1
    /\ requested[1] = 2
    /\ Drained(1)
    /\ Cardinality(ImagesOf(1)) = 2

\* C7: in every reachable state, whatever calls fail, a MovieImage row exists
\* only for an upload that succeeded, and no row references a remote object
\* that is missing from the remote store.
C7_NoOrphanedRow ==
    \A im \in movieImages :
        /\ im.CloudFlareID \in 1..Len(uploads)
        /\ im.CloudFlareID \in remote

\* C8: a failure of AddUploadTaskToQueue during movieService.Create, for any
\* subset of the images, does not fail the request: Create returns the movie
\* response with a nil error, the Movie row is persisted, and the failed task
\* is absent from the queue.
C8_PushFailureTolerated ==
    [][(/\ last'.op = "Create"
        /\ CountCalls(last'.calls, "AddUploadTaskToQueue", FALSE) > 0)
       => (/\ last'.err = NoErr
           /\ Len(movies') = Len(movies) + 1
           /\ SubSeq(movies', 1, Len(movies)) = movies
           /\ movies'[Len(movies')].UserID = last'.session
           /\ \E resp \in last'.resp :
                /\ resp.ID = movies'[Len(movies')].ID
                /\ resp.Title = movies'[Len(movies')].Title
                /\ resp.IndicativeRating.ID \in last'.rating
           /\ Enqueued = CountCalls(last'.calls, "AddUploadTaskToQueue", TRUE))]_vars

C8_Witness ==
    /\ last.op = "Create"
    /\ CountCalls(last.calls, "AddUploadTaskToQueue", FALSE) = 2
    /\ last.err = NoErr
    /\ Len(movies) = 1
    /\ uploadQ = <<>>

Failed(calls, fn) == \E i \in 1..Len(calls) : calls[i] = Call(fn, FALSE)

\* C9: ProcessUploadQueue on one task returns an error if the remote upload
\* or the MovieImage insert fails, with no retry and no compensation: when the
\* upload fails CreateMovieImage is not called and no row is written; when the
\* upload succeeds and the insert fails the remote object remains with no
\* row; a failed task is not re-enqueued.
C9_UploadFailureNoRetry ==
    [][last'.op = "ProcessUploadQueue"
       => /\ Failed(last'.calls, "UploadImage")
             => (/\ last'.err # NoErr
                 /\ ~Called(last'.calls, "CreateMovieImage")
                 /\ movieImages' = movieImages
                 /\ remote' = remote)
          /\ Failed(last'.calls, "CreateMovieImage")
             => (/\ last'.err # NoErr
                 /\ movieImages' = movieImages
                 /\ remote' = remote \cup {nextCf}
                 /\ nextCf \notin remote
                 /\ \A im \in movieImages' : im.CloudFlareID # nextCf)
          /\ last'.err # NoErr
             => (/\ AnyFailed(last'.calls)
                 /\ uploadQ' = Tail(uploadQ)
                 /\ deleteQ' = deleteQ)
          /\ last'.err = NoErr
             => (/\ ~AnyFailed(last'.calls)
                 /\ \E im \in movieImages' \ movieImages :
                      im.CloudFlareID \in remote' \ remote)]_vars

C9_Witness ==
    /\ last.op = "ProcessUploadQueue"
    /\ Failed(last.calls, "CreateMovieImage")
    /\ last.err # NoErr
    /\ \E c \in remote : \A im \in movieImages : im.CloudFlareID # c

\* C10: ProcessDeleteQueue on one task deletes the remote object before the
\* database row: DeleteMovieImage is called only after DeleteImage succeeded;
\* if the remote delete fails the MovieImage row is unchanged and an error is
\* returned; if the remote delete succeeds and the database delete fails an
\* error is returned and the row remains, with no compensating action.
C10_RemoteDeleteFirst ==
    [][last'.op = "ProcessDeleteQueue"
       => /\ Called(last'.calls, "DeleteMovieImage")
             => (/\ last'.calls[1] = Call("DeleteImage", TRUE)
                 /\ last'.cf \notin remote')
          /\ Failed(last'.calls, "DeleteImage")
             => (/\ last'.err # NoErr
                 /\ ~Called(last'.calls, "DeleteMovieImage")
                 /\ movieImages' = movieImages
                 /\ remote' = remote)
          /\ Failed(last'.calls, "DeleteMovieImage")
             => (/\ last'.err # NoErr
                 /\ movieImages' = movieImages
                 /\ remote' = remote \ {last'.cf}
                 /\ uploadQ' = uploadQ
                 /\ deleteQ' = Tail(deleteQ))
          /\ last'.err = NoErr
             => \A im \in movieImages' : im.CloudFlareID # last'.cf]_vars

C10_Witness ==
    /\ last.op = "ProcessDeleteQueue"
    /\ Failed(last.calls, "DeleteMovieImage")
    /\ last.err # NoErr
    /\ last.cf \notin remote
    /\ \E im \in movieImages : im.CloudFlareID = last.cf

\* The tasks of the images whose push succeeded, in the order of the images:
\* oks[i] is the outcome of the push for imgs[i], from index i on.
RECURSIVE PushedTasks(_, _, _)
PushedTasks(imgs, oks, i) ==
    IF i > Len(imgs) THEN <<>>
    ELSE (IF oks[i] THEN <<[CloudFlareID |-> imgs[i].CloudFlareID]>> ELSE <<>>)
         \o PushedTasks(imgs, oks, i + 1)

\* C11: movieService.Delete on a movie the session user owns (once GetByID has
\* returned it) makes exactly one AddDeleteTaskToQueue attempt per MovieImage
\* row of the movie, in the order of the rows, each task carrying that row's
\* remote identifier; a failed attempt does not stop the later ones, the
\* queue grows by exactly the tasks whose push succeeded, and Delete returns
\* nil whatever pushes fail.
C11_DeleteTaskPerImage ==
    [][(/\ last'.op = "Delete"
        /\ last'.id \in 1..Len(movies)
        /\ movies[last'.id].UserID = last'.session
        /\ LookedUp(last'.calls, "GetByID"))
       => LET imgs == SortByID(ImagesOf(last'.id))
              calls == last'.calls
              oks == [i \in 1..Len(imgs) |-> calls[i + 1].ok]
          IN  /\ last'.err = NoErr
              /\ Len(calls) = Len(imgs) + 1
              /\ \A i \in 2..Len(calls) : calls[i].fn = "AddDeleteTaskToQueue"
              /\ deleteQ' = deleteQ \o PushedTasks(imgs, oks, 1)]_vars

C11_Witness ==
    /\ last.op = "Delete"
    /\ last.err = NoErr
    /\ Cardinality(ImagesOf(last.id)) = 2
    /\ last.calls = <<Call("GetByID", TRUE), Call("AddDeleteTaskToQueue", FALSE),
                      Call("AddDeleteTaskToQueue", TRUE)>>
    /\ Len(deleteQ) = 1
    /\ \E im \in ImagesOf(last.id) : deleteQ[1].CloudFlareID = im.CloudFlareID

\* The exchanges of the user handler the state remembers: the last two.
Exchanges == {hlast, hprev}

\* C12: the sign-in handler does not reveal whether an email is registered:
\* of two well-formed sign-in requests, one failing in the service with
\* ErrUserNotFound and one with ErrInvalidPassword, both are answered with
\* status 401 and their response bodies are identical.
C12_SignInHidesRegistration ==
    \A x \in Exchanges, y \in Exchanges :
        (/\ x.op = "SignIn" /\ x.invoked /\ x.err = ErrUserNotFound
         /\ y.op = "SignIn" /\ y.invoked /\ y.err = ErrInvalidPassword)
        => (/\ x.status = 401
            /\ y.status = 401
            /\ x.body = y.body
            /\ x.body # {})

C12_Witness ==
    /\ hprev.op = "SignIn" /\ hprev.err = ErrInvalidPassword
    /\ hlast.op = "SignIn" /\ hlast.err = ErrUserNotFound
    /\ hlast.status = 401
    /\ Registered(ulast.email) = {}
    /\ users # {}

\* The errors the handlers recognise as domain errors.
RecognisedErrors == {ErrEmailAlreadyRegister, ErrUserNotFound, ErrInvalidPassword}

\* An exchange in which the user service failed with an unrecognised error.
InfrastructureFailure(x) ==
    /\ x.op \in {"Create", "SignIn"}
    /\ x.invoked
    /\ x.err \notin RecognisedErrors \cup {NoErr}

\* C13: when the user service returns an error that is not a recognised
\* domain error (a repository, hashing or session-store failure), the Create
\* and SignIn handlers answer 500 with one fixed generic body, the same for
\* both handlers and every such error, and the error's text is nowhere in it.
C13_InternalErrorGeneric ==
    \A x \in Exchanges :
        InfrastructureFailure(x)
        => (/\ x.status = 500
            /\ x.body = {InternalServerErrorBody}
            /\ \A b \in x.body :
                 /\ b.title # x.err
                 /\ b.details # x.err
                 /\ x.err \notin b.errors
            /\ \A y \in Exchanges : InfrastructureFailure(y) => y.body = x.body)

C13_Witness ==
    /\ hprev.op = "SignIn" /\ hprev.err = ErrCreateSession
    /\ hlast.op = "Create" /\ hlast.err = ErrCreateUser
    /\ hlast.status = 500
    /\ Failed(ulast.calls, "Create")

\* C14: a request to the user Create or SignIn handler whose body does not
\* decode or fails payload validation is answered 422 and the user service is
\* not invoked for it: table User and the session store are unchanged; only a
\* request that decodes and validates reaches the service, and a successful
\* Create answers 201 with an empty body.
C14_InvalidPayloadStopsAtHandler ==
    [][LET x == hlast'
       IN  /\ (~x.decodes \/ x.invalid # {})
              => (/\ x.status = 422
                  /\ x.body # {}
                  /\ ~x.invoked
                  /\ UNCHANGED <<users, sessions, ulast>>)
           /\ x.invoked => (x.decodes /\ x.invalid = {})
           /\ (x.op = "Create" /\ x.invoked /\ x.err = NoErr)
              => (/\ x.status = 201
                  /\ x.body = {}
                  /\ \E u \in users' : u.Email = ulast'.email)]_vars

C14_Witness ==
    /\ hlast.op = "SignIn"
    /\ hlast.invalid = {"email", "password"}
    /\ hlast.status = 422
    /\ ~hlast.invoked
    /\ hprev.op = "Create" /\ hprev.status = 201 /\ hprev.body = {}
    /\ sessions = <<>>

\* C15: a session is issued only for an authenticated user.  In a sign-in
\* that reaches userService.SignIn, sessionService.Create is called at most
\* once, and only after GetByEmail returned a user whose password hash
\* matches; it is called exactly once when that is so.  On success the token
\* in the SignInResponse and in the handler's 200 body is the token
\* sessionService.Create returned, the key of the new session of that user;
\* if session creation fails SignIn returns ErrCreateSession with no token
\* and no session is stored.
C15_SessionOnlyForAuthenticated ==
    [][(hlast'.op = "SignIn" /\ hlast'.invoked)
       => LET calls == ulast'.calls
              n == CountCalls(calls, "SessionCreate", TRUE)
                   + CountCalls(calls, "SessionCreate", FALSE)
              matching == {u \in Registered(ulast'.email) :
                              u.PasswordHash = HashPassword(ulast'.password)}
          IN  /\ n <= 1
              /\ n = 1 => (/\ matching # {}
                           /\ Len(calls) = 2
                           /\ calls[1] = Call("GetByEmail", TRUE)
                           /\ calls[2].fn = "SessionCreate")
              /\ (matching # {} /\ LookedUp(calls, "GetByEmail")) => n = 1
              /\ ulast'.err = NoErr
                 => (/\ calls[Len(calls)] = Call("SessionCreate", TRUE)
                     /\ Len(sessions') = Len(sessions) + 1
                     /\ SubSeq(sessions', 1, Len(sessions)) = sessions
                     /\ ulast'.token = Len(sessions')
                     /\ \E u \in matching : sessions'[ulast'.token] = u.ID
                     /\ hlast'.status = 200
                     /\ hlast'.body = {[token |-> ulast'.token]})
              /\ Failed(calls, "SessionCreate")
                 => (/\ ulast'.err = ErrCreateSession
                     /\ ulast'.token = 0
                     /\ sessions' = sessions
                     /\ hlast'.status = 500)
              /\ ulast'.err # NoErr
                 => (/\ ulast'.token = 0
                     /\ sessions' = sessions
                     /\ hlast'.status # 200)]_vars

C15_Witness ==
    /\ hlast.op = "SignIn" /\ hlast.status = 200
    /\ ulast.op = "SignIn" /\ ulast.err = NoErr
    /\ ulast.token = 2
    /\ hlast.body = {[token |-> 2]}
    /\ Len(sessions) = 2
    /\ \E u \in Registered(ulast.email) : sessions[2] = u.ID

\* The value of an optional payload field, or the given one if it is absent.
Supplied(field, stored) == IF field = {} THEN stored ELSE CHOOSE x \in field : TRUE

\* C16: movieService.Update applies a partial-field payload: each of Title,
\* Duration and the rating reference (IndicativeRatingID and IndicativeRating)
\* of the movie passed to movieRepository.Update is the payload's value when
\* the field is supplied and the stored value when it is absent; supplying an
\* unknown rating id returns ErrIndicativeRatingNotFound with no repository
\* Update.
C16_PartialUpdate ==
    [][(/\ last'.op = "Update"
        /\ last'.id \in 1..Len(movies)
        /\ movies[last'.id].UserID = last'.session
        /\ LookedUp(last'.calls, "GetByID"))
       => LET old == movies[last'.id]
              rating == Supplied(last'.rating, old.IndicativeRatingID)
          IN  /\ Called(last'.calls, "Update")
                 => (/\ last'.passed # {}
                     /\ \A m \in last'.passed :
                          /\ m.ID = old.ID
                          /\ m.UserID = old.UserID
                          /\ m.Title = Supplied(last'.title, old.Title)
                          /\ m.Duration = Supplied(last'.duration, old.Duration)
                          /\ m.IndicativeRatingID = rating
                          /\ m.IndicativeRating = GetIndicativeRatingByID(rating))
              /\ (/\ GetIndicativeRatingByID(rating) = {}
                  /\ ~Failed(last'.calls, "GetIndicativeRatingByID"))
                 => (/\ last'.err = ErrIndicativeRatingNotFound
                     /\ ~Called(last'.calls, "Update")
                     /\ movies' = movies)]_vars

\* C17: movieService.Delete neither removes nor modifies the Movie row and
\* removes no MovieImage row: right after a Delete, successful or not, the
\* movie and all its image rows are stored as before, the remote store and
\* the upload queue are untouched, and the only change is the delete tasks
\* appended to the delete queue.
C17_DeleteOnlyEnqueues ==
    [][last'.op = "Delete"
       => (/\ UNCHANGED <<movies, movieImages, remote, nextCf, uploadQ>>
           /\ Len(deleteQ') >= Len(deleteQ)
           /\ SubSeq(deleteQ', 1, Len(deleteQ)) = deleteQ
           /\ Len(deleteQ') - Len(deleteQ)
                = CountCalls(last'.calls, "AddDeleteTaskToQueue", TRUE)
           /\ last'.err = NoErr
              => (/\ last'.id \in 1..Len(movies')
                  /\ \A t \in {deleteQ'[k] : k \in Len(deleteQ) + 1 .. Len(deleteQ')} :
                       \E im \in movieImages' :
                          /\ im.MovieID = last'.id
                          /\ im.CloudFlareID = t.CloudFlareID))]_vars

C17_Witness ==
    /\ last.op = "Delete"
    /\ last.err = NoErr
    /\ last.id \in 1..Len(movies)
    /\ Cardinality(ImagesOf(last.id)) = 2
    /\ Len(deleteQ) = 2
    /\ \A im \in ImagesOf(last.id) : im.CloudFlareID \in remote

\* C18: with no remote-store or database failure, once a Delete of a movie
\* has returned nil and both queues have been drained, no MovieImage row of
\* that movie remains, also when the Delete ran while upload tasks of the
\* movie were still queued.
C18_DeletedMovieHasNoImages ==
    \A m \in deleted :
        (~faulted /\ uploadQ = <<>> /\ deleteQ = <<>>) => ImagesOf(m) = {}

\* The finished concurrent requests that carried an email.
DoneWith(email) ==
    {p \in 1..MaxRequests : reqs[p].pc = "done" /\ reqs[p].email = email}

\* C19: for any interleaving of concurrent userService.Create requests with
\* the same email, at most one of them has userRepository.Create succeed, at
\* most one user is stored per email, and every other request, unless a
\* repository or hashing failure ended it, returns ErrEmailAlreadyRegister.
C19_EmailUniqueUnderConcurrency ==
    \A email \in Emails :
        LET won == {p \in DoneWith(email) : reqs[p].err = NoErr}
        IN  /\ Cardinality(won) <= 1
            /\ Cardinality(Registered(email)) <= 1
            /\ won # {}
               => \A q \in DoneWith(email) \ won :
                     ~reqs[q].fault => reqs[q].err = ErrEmailAlreadyRegister

====
